---- MODULE Spec2Model ----
(***************************************************************************)
(* Model of mexec.c: a parent process reads N command lines, creates N-1   *)
(* pipes, forks one child per command, closes its pipe descriptors and     *)
(* waits for the children in launch order.  Every process has its own      *)
(* descriptor table; descriptors are numbers, allocated lowest-free.       *)
(***************************************************************************)
EXTENDS Integers, Naturals, Sequences, FiniteSets, TLC

\* ---------------------------------------------------------------- bounds
MaxN == 3            \* most command lines in the input of Spec
MaxDataN == 3        \* most command lines in the input of SpecData
MaxBytes == 2        \* most bytes the stages write in one run, all together

\* ------------------------------------------------------ program constants
MAX_LINE_LENGTH == 1024
STDIN_FILENO == 0
STDOUT_FILENO == 1
EXIT_SUCCESS == 0
EXIT_FAILURE == 1

\* ------------------------------------------------------------ descriptors
Max(a, b) == IF a > b THEN a ELSE b
Stages == 0 .. (Max(MaxN, MaxDataN) - 1)
Fds == 0 .. (2 + 2 * Max(MaxN, MaxDataN))
Closed == <<"closed", 0>>
Std(fd) == <<"std", fd>>
ReadEnd(p) == <<"r", p>>
WriteEnd(p) == <<"w", p>>
IsPipeEnd(d) == d[1] \in {"r", "w"}
AllClosed == [fd \in Fds |-> Closed]

\* close(fd): the table afterwards
Close(t, fd) == [t EXCEPT ![fd] = Closed]
\* close(fd) succeeds only on an open descriptor (EBADF otherwise)
CloseOk(t, fd) == t[fd] # Closed

\* dup2(old, new) fails on a closed old; old = new is a successful no-op
Dup2Ok(t, old) == t[old] # Closed
Dup2(t, old, new) == IF t[old] = Closed THEN t ELSE [t EXCEPT ![new] = t[old]]

\* pipe(): the two lowest free descriptor numbers, read end first
LowestFree(t) == CHOOSE f \in Fds : t[f] = Closed /\ \A g \in Fds : g < f => t[g] # Closed
PipeFds(t) == LET r == LowestFree(t)
                  w == LowestFree([t EXCEPT ![r] = ReadEnd(0)])
              IN  <<r, w>>

\* wait status of a child: exit(code) gives (code mod 256) * 256, a signal its number
WExit(code) == (code % 256) * 256
SIGKILL == 9
SIGPIPE == 13
ExitStatuses == {WExit(EXIT_SUCCESS), WExit(EXIT_FAILURE), SIGKILL}

\* value of the local variable status before any waitpid has stored into it
Uninit == -1
Garbage == {0, 32767}

\* ------------------------------------------------------------------ input
\* n command lines "c", the last one with or without its line terminator
RECURSIVE Text(_, _)
Text(n, nl) == IF n = 0 THEN <<>>
               ELSE IF n = 1 THEN (IF nl THEN <<"c", "\n">> ELSE <<"c">>)
               ELSE <<"c", "\n">> \o Text(n - 1, nl)
Inputs(max) == {Text(n, nl) : n \in 0 .. max, nl \in BOOLEAN} \cup {<<"\n">>}

\* read_input: one command per fgets() result; fgets stops after a newline,
\* at end of input, or when MAX_LINE_LENGTH - 1 characters are in the buffer
RECURSIVE fgets_count(_, _)
fgets_count(s, linelen) ==
    IF s = <<>> THEN (IF linelen > 0 THEN 1 ELSE 0)
    ELSE IF Head(s) = "\n" \/ linelen + 1 = MAX_LINE_LENGTH - 1
         THEN 1 + fgets_count(Tail(s), 0)
         ELSE fgets_count(Tail(s), linelen + 1)
read_input(text) == fgets_count(text, 0)

\* ------------------------------------------------------------------ state
VARIABLES
    pc,                 \* parent: "start","create_pipes","exec","close_pipes","wait","exit"
    number_of_commands, \* main's number_of_commands
    pipe_array,         \* sequence of <<read fd, write fd>>, one per created pipe
    i,                  \* loop index of the loop the parent is in
    pfd,                \* the parent's descriptor table
    processes,          \* sequence of recorded process ids
    status,             \* wait_for_processes' local variable status
    exitcode,           \* the program's exit status, -1 while it runs
    why,                \* which exit() call ended the program
    sigchld_ign,        \* SIGCHLD is ignored (inherited disposition)
    empty_input,        \* history: the command source held no line at all
    bad_args,           \* history: more than one argument, or a file that cannot be opened
    failed,             \* history: the call of the parent that failed: "none","pipe","fork"
    cpc,                \* child: "none","child","execute","running","exited"
    cfd,                \* the children's descriptor tables
    cstat,              \* wait status of each terminated child, -1 before
    reaped,             \* children whose status the parent has collected
    pclosed,            \* history: <<fd, succeeded>> for every close() of the parent
    cclosed,            \* history: <<fd, succeeded>> for every close() of each child
    waited,             \* history: process ids passed to waitpid, in order
    nforks,             \* history: fork() calls made
    out,                \* history: bytes each stage wrote to its standard output
    inp,                \* history: bytes each stage read from its standard input
    eof,                \* stage has read end-of-file on its standard input
    buf                 \* bytes in flight in each pipe

vars == <<pc, number_of_commands, pipe_array, i, pfd, processes, status, exitcode,
          why, sigchld_ign, empty_input, bad_args, failed, cpc, cfd, cstat, reaped,
          pclosed, cclosed, waited, nforks, out, inp, eof, buf>>

parentVars == <<pc, number_of_commands, pipe_array, i, pfd, processes, status,
                exitcode, why, pclosed, waited, nforks, reaped>>
childVars == <<cpc, cfd, cstat, cclosed>>
dataVars == <<out, inp, eof, buf>>

Pid(c) == 100 + c
ChildOf(pid) == pid - 100

\* the program may be started with standard input or output closed
Init ==
    /\ pc = "start"
    /\ number_of_commands = 0
    /\ pipe_array = <<>>
    /\ i = 0
    /\ \E in_open \in BOOLEAN, out_open \in BOOLEAN :
          pfd = [fd \in Fds |-> IF fd = 0 /\ in_open THEN Std(0)
                                ELSE IF fd = 1 /\ out_open THEN Std(1)
                                ELSE IF fd = 2 THEN Std(2)
                                ELSE Closed]
    /\ processes = <<>>
    /\ status = Uninit
    /\ exitcode = -1
    /\ why = "running"
    /\ sigchld_ign \in BOOLEAN
    /\ empty_input = FALSE
    /\ bad_args = FALSE
    /\ failed = "none"
    /\ cpc = [c \in Stages |-> "none"]
    /\ cfd = [c \in Stages |-> AllClosed]
    /\ cstat = [c \in Stages |-> -1]
    /\ reaped = {}
    /\ pclosed = <<>>
    /\ cclosed = [c \in Stages |-> <<>>]
    /\ waited = <<>>
    /\ nforks = 0
    /\ out = [c \in Stages |-> <<>>]
    /\ inp = [c \in Stages |-> <<>>]
    /\ eof = [c \in Stages |-> FALSE]
    /\ buf = [p \in Stages |-> <<>>]

\* exit(code) in the parent: the process ends and its descriptors are released
Exit(code, reason) ==
    /\ pc' = "exit"
    /\ exitcode' = code
    /\ why' = reason
    /\ pfd' = AllClosed

\* ----------------------------------------------------------------- parent
\* variant: the switch has no default case
args_ok_no_default(argc, file_ok) == argc = 2 => file_ok

\* the switch of lines 41-63: main goes on to read the commands
args_ok(argc, file_ok) == argc = 1 \/ (argc = 2 /\ file_ok)

\* main, lines 41-63: argument handling and reading of the command list
main_args(max) ==
    /\ pc = "start"
    /\ \E argc \in 1 .. 3, file_ok \in BOOLEAN, text \in Inputs(max) :
          /\ bad_args' = (argc - 1 > 1 \/ (argc - 1 = 1 /\ ~file_ok))
          /\ IF args_ok(argc, file_ok)
             THEN /\ number_of_commands' = read_input(text)
                  /\ empty_input' = (text = <<>>)
                  /\ pc' = "create_pipes"
                  /\ i' = 0
                  /\ UNCHANGED <<exitcode, why, pfd>>
             ELSE /\ Exit(EXIT_FAILURE, IF argc = 2 THEN "fopen" ELSE "usage")
                  /\ UNCHANGED <<number_of_commands, i, empty_input>>
    /\ UNCHANGED <<pipe_array, processes, status, pclosed, waited, nforks, reaped,
                   sigchld_ign, failed>>
    /\ UNCHANGED childVars
    /\ UNCHANGED dataVars

\* variant: one pipe per command
NumPipes_per_command(n) == n

\* number of pipes create_pipes and close_pipes loop over
NumPipes(n) == n - 1

\* create_pipes, one iteration of the loop: pipe() succeeds or fails
create_pipes ==
    /\ pc = "create_pipes"
    /\ i < NumPipes(number_of_commands)
    /\ \E ok \in BOOLEAN :
          IF ok
          THEN LET p == PipeFds(pfd)
               IN  /\ pipe_array' = Append(pipe_array, p)
                   /\ pfd' = [pfd EXCEPT ![p[1]] = ReadEnd(i), ![p[2]] = WriteEnd(i)]
                   /\ i' = i + 1
                   /\ UNCHANGED <<pc, exitcode, why, failed>>
          ELSE /\ Exit(EXIT_FAILURE, "pipe")
               /\ failed' = "pipe"
               /\ UNCHANGED <<pipe_array, i>>
    /\ UNCHANGED <<number_of_commands, processes, status, pclosed, waited, nforks,
                   reaped, sigchld_ign, empty_input, bad_args>>
    /\ UNCHANGED childVars
    /\ UNCHANGED dataVars

\* create_pipes returns; main enters the launch loop
create_pipes_return ==
    /\ pc = "create_pipes"
    /\ ~(i < NumPipes(number_of_commands))
    /\ pc' = "exec"
    /\ i' = 0
    /\ UNCHANGED <<number_of_commands, pipe_array, pfd, processes, status, exitcode,
                   why, pclosed, waited, nforks, reaped, sigchld_ign, empty_input, bad_args, failed>>
    /\ UNCHANGED childVars
    /\ UNCHANGED dataVars

\* variant: the launch loop runs once too often
more_commands_incl(k, n) == k <= n

\* the launch loop's condition (line 72)
more_commands(k, n) == k < n

\* variant: a fork that fails is tried again
exec_command_retry ==
    /\ pc = "exec"
    /\ more_commands(i, number_of_commands)
    /\ nforks' = nforks + 1
    /\ \E ok \in BOOLEAN :
          IF ok
          THEN /\ cpc' = [cpc EXCEPT ![i] = "child"]
               /\ cfd' = [cfd EXCEPT ![i] = pfd]
               /\ processes' = Append(processes, Pid(i))
               /\ i' = i + 1
               /\ UNCHANGED <<pc, exitcode, why, pfd, failed>>
          ELSE /\ failed' = "fork"
               /\ nforks < MaxN
               /\ UNCHANGED <<pc, exitcode, why, pfd, cpc, cfd, processes, i>>
    /\ UNCHANGED <<number_of_commands, pipe_array, status, pclosed, waited, reaped,
                   sigchld_ign, empty_input, bad_args, cstat, cclosed>>
    /\ UNCHANGED dataVars

\* exec_command, parent side: fork() and the recording of the process id
exec_command ==
    /\ pc = "exec"
    /\ more_commands(i, number_of_commands)
    /\ nforks' = nforks + 1
    /\ \E ok \in BOOLEAN :
          IF ok
          THEN /\ cpc' = [cpc EXCEPT ![i] = "child"]
               /\ cfd' = [cfd EXCEPT ![i] = pfd]
               /\ processes' = Append(processes, Pid(i))
               /\ i' = i + 1
               /\ UNCHANGED <<pc, exitcode, why, pfd, failed>>
          ELSE /\ Exit(EXIT_FAILURE, "fork")
               /\ failed' = "fork"
               /\ UNCHANGED <<cpc, cfd, processes, i>>
    /\ UNCHANGED <<number_of_commands, pipe_array, status, pclosed, waited, reaped,
                   sigchld_ign, empty_input, bad_args, cstat, cclosed>>
    /\ UNCHANGED dataVars

\* variant: main goes on to close_pipes while commands are left to launch
exec_loop_end_early ==
    /\ pc = "exec"
    /\ i >= 1
    /\ pc' = "close_pipes"
    /\ i' = 0
    /\ UNCHANGED <<number_of_commands, pipe_array, pfd, processes, status, exitcode,
                   why, pclosed, waited, nforks, reaped, sigchld_ign, empty_input, bad_args, failed>>
    /\ UNCHANGED childVars
    /\ UNCHANGED dataVars

\* the launch loop ends; dealloc_arr; main calls close_pipes
exec_loop_end ==
    /\ pc = "exec"
    /\ ~more_commands(i, number_of_commands)
    /\ pc' = "close_pipes"
    /\ i' = 0
    /\ UNCHANGED <<number_of_commands, pipe_array, pfd, processes, status, exitcode,
                   why, pclosed, waited, nforks, reaped, sigchld_ign, empty_input, bad_args, failed>>
    /\ UNCHANGED childVars
    /\ UNCHANGED dataVars

\* variant: the read end is closed twice, the write end never
ClosePair_read_twice(pa, k) == <<pa[k + 1][1], pa[k + 1][1]>>

\* the fds close_pipes closes in iteration k, in order
ClosePair(pa, k) == <<pa[k + 1][1], pa[k + 1][2]>>

\* the test of line 219
StatusFailed(s) == s # 0

\* children the parent has forked
Launched == {c \in Stages : cpc[c] # "none"}

\* waitpid(pid, &status, 0) can return: with SIGCHLD ignored it blocks until
\* every child has terminated and then fails; otherwise until the child has
WaitReturns(c) ==
    IF sigchld_ign THEN \A d \in Launched : cpc[d] = "exited"
    ELSE cpc[c] = "exited"

\* the values status may hold after the call: the child's wait status, or,
\* after a failed call, what it held before (indeterminate if never stored)
StatusAfterWait(c) ==
    IF ~sigchld_ign THEN {cstat[c]}
    ELSE IF status = Uninit THEN Garbage ELSE {status}

\* variant: the last process is not waited for
more_processes_short(k, n) == k < n - 1

\* the wait loop's condition (line 216)
more_processes(k, n) == k < n

\* wait_for_processes, one iteration: waitpid, then the test of status
wait_for_processes ==
    /\ pc = "wait"
    /\ more_processes(i, number_of_commands)
    /\ LET c == ChildOf(processes[i + 1])
       IN  /\ WaitReturns(c)
           /\ waited' = Append(waited, processes[i + 1])
           /\ reaped' = IF sigchld_ign THEN reaped ELSE reaped \cup {c}
           /\ \E s \in StatusAfterWait(c) :
                 /\ status' = s
                 /\ IF StatusFailed(s)
                    THEN /\ Exit(EXIT_FAILURE, "child")
                         /\ i' = i
                    ELSE /\ i' = i + 1
                         /\ UNCHANGED <<pc, exitcode, why, pfd>>
    /\ UNCHANGED <<number_of_commands, pipe_array, processes, pclosed, nforks,
                   sigchld_ign, empty_input, bad_args, failed>>
    /\ UNCHANGED childVars
    /\ UNCHANGED dataVars

\* wait_for_processes returns; main calls exit(EXIT_SUCCESS)
main_exit ==
    /\ pc = "wait"
    /\ ~more_processes(i, number_of_commands)
    /\ Exit(EXIT_SUCCESS, "success")
    /\ UNCHANGED <<number_of_commands, pipe_array, i, processes, status, pclosed,
                   waited, nforks, reaped, sigchld_ign, empty_input, bad_args, failed>>
    /\ UNCHANGED childVars
    /\ UNCHANGED dataVars

\* ------------------------------------------------------------------ child
\* exit(code) in child c, or its termination by a signal
ChildExit(c, wstatus) ==
    /\ cpc' = [cpc EXCEPT ![c] = "exited"]
    /\ cstat' = [cstat EXCEPT ![c] = wstatus]
    /\ cfd' = [cfd EXCEPT ![c] = AllClosed]

\* variant: every stage reads from the first pipe
StdinPipe_first(it) == 0

\* the pipe whose read end becomes standard input of iteration it
StdinPipe(it) == it - 1
\* the pipe whose write end becomes standard output of iteration it
StdoutPipe(it) == it
\* pipe_array[p][0] and pipe_array[p][1]
PipeRd(pa, p) == pa[p + 1][1]
PipeWr(pa, p) == pa[p + 1][2]

\* lines 156-164: table and close log after the redirection of standard input
RedirectStdin(t, pa, it) ==
    IF it > 0
    THEN LET t1 == Dup2(t, PipeRd(pa, StdinPipe(it)), STDIN_FILENO)
             fd == PipeWr(pa, StdinPipe(it))
         IN  [t |-> Close(t1, fd), log |-> << <<fd, CloseOk(t1, fd)>> >>]
    ELSE [t |-> t, log |-> <<>>]

\* lines 167-175: the same for standard output
RedirectStdout(t, pa, it, n) ==
    IF it < n - 1
    THEN LET t1 == Dup2(t, PipeWr(pa, StdoutPipe(it)), STDOUT_FILENO)
             fd == PipeRd(pa, StdoutPipe(it))
         IN  [t |-> Close(t1, fd), log |-> << <<fd, CloseOk(t1, fd)>> >>]
    ELSE [t |-> t, log |-> <<>>]

\* variant: the child closes nothing
close_pipes_none(t, pa, k, n) == [t |-> t, log |-> <<>>]

\* close_pipes as one call: iterations k .. NumPipes(n) - 1 on table t
RECURSIVE close_pipes_call(_, _, _, _)
close_pipes_call(t, pa, k, n) ==
    IF k < NumPipes(n)
    THEN LET fds == ClosePair(pa, k)
             t1 == Close(t, fds[1])
             t2 == Close(t1, fds[2])
             rest == close_pipes_call(t2, pa, k + 1, n)
         IN  [t |-> rest.t,
              log |-> << <<fds[1], CloseOk(t, fds[1])>>,
                         <<fds[2], CloseOk(t1, fds[2])>> >> \o rest.log]
    ELSE [t |-> t, log |-> <<>>]

\* main, line 78: close_pipes in the parent, the whole call, results ignored;
\* main then calls wait_for_processes
close_pipes ==
    /\ pc = "close_pipes"
    /\ LET d == close_pipes_call(pfd, pipe_array, 0, number_of_commands)
       IN  /\ pfd' = d.t
           /\ pclosed' = pclosed \o d.log
    /\ pc' = "wait"
    /\ i' = 0
    /\ UNCHANGED <<number_of_commands, pipe_array, processes, status, exitcode,
                   why, waited, nforks, reaped, sigchld_ign, empty_input, bad_args, failed>>
    /\ UNCHANGED childVars
    /\ UNCHANGED dataVars

\* exec_command, child side (lines 152-178): the redirections and close_pipes;
\* a dup2 that fails ends the child with exit(EXIT_FAILURE)
child_redirect(c) ==
    /\ cpc[c] = "child"
    /\ \E in_ok \in BOOLEAN, out_ok \in BOOLEAN :
          LET n == number_of_commands
              t0 == cfd[c]
              fail0 == c > 0 /\ ~(in_ok /\ Dup2Ok(t0, PipeRd(pipe_array, StdinPipe(c))))
              a == RedirectStdin(t0, pipe_array, c)
              fail1 == c < n - 1
                         /\ ~(out_ok /\ Dup2Ok(a.t, PipeWr(pipe_array, StdoutPipe(c))))
              b == RedirectStdout(a.t, pipe_array, c, n)
              d == close_pipes_call(b.t, pipe_array, 0, n)
          IN  /\ (c = 0 => in_ok) /\ (c >= n - 1 => out_ok)
              /\ IF fail0
                 THEN ChildExit(c, WExit(EXIT_FAILURE)) /\ UNCHANGED cclosed
                 ELSE IF fail1
                 THEN /\ ChildExit(c, WExit(EXIT_FAILURE))
                      /\ cclosed' = [cclosed EXCEPT ![c] = a.log]
                 ELSE /\ cpc' = [cpc EXCEPT ![c] = "execute"]
                      /\ cfd' = [cfd EXCEPT ![c] = d.t]
                      /\ cclosed' = [cclosed EXCEPT ![c] = a.log \o b.log \o d.log]
                      /\ UNCHANGED cstat
    /\ UNCHANGED parentVars
    /\ UNCHANGED <<sigchld_ign, empty_input, bad_args, failed>>
    /\ UNCHANGED dataVars

\* variant: after a failed execlp the child returns into the launch loop and
\* forks in its turn
execute_returns(c) ==
    /\ cpc[c] = "execute"
    /\ \E ok \in BOOLEAN :
          IF ok
          THEN cpc' = [cpc EXCEPT ![c] = "running"] /\ UNCHANGED <<cfd, cstat, nforks>>
          ELSE ChildExit(c, WExit(EXIT_FAILURE)) /\ nforks' = nforks + 1
    /\ UNCHANGED cclosed
    /\ UNCHANGED <<pc, number_of_commands, pipe_array, i, pfd, processes, status,
                   exitcode, why, pclosed, waited, reaped>>
    /\ UNCHANGED <<sigchld_ign, empty_input, bad_args, failed>>
    /\ UNCHANGED dataVars

\* execute: execlp replaces the process image by the shell, or fails
execute(c) ==
    /\ cpc[c] = "execute"
    /\ \E ok \in BOOLEAN :
          IF ok
          THEN cpc' = [cpc EXCEPT ![c] = "running"] /\ UNCHANGED <<cfd, cstat>>
          ELSE ChildExit(c, WExit(EXIT_FAILURE))
    /\ UNCHANGED cclosed
    /\ UNCHANGED parentVars
    /\ UNCHANGED <<sigchld_ign, empty_input, bad_args, failed>>
    /\ UNCHANGED dataVars

\* the command of stage c terminates: exit status or signal
stage_exit(c) ==
    /\ cpc[c] = "running"
    /\ \E s \in ExitStatuses : ChildExit(c, s)
    /\ UNCHANGED cclosed
    /\ UNCHANGED parentVars
    /\ UNCHANGED <<sigchld_ign, empty_input, bad_args, failed>>
    /\ UNCHANGED dataVars

\* ---------------------------------------------------------------- pipes
\* some process holds descriptor description d
Held(d) == \/ \E fd \in Fds : pfd[fd] = d
           \/ \E c \in Stages, fd \in Fds : cfd[c][fd] = d

\* the k-th byte stage c writes
Byte(c, k) == 10 * c + k

\* bytes written so far by stages 0 .. c
RECURSIVE Written(_)
Written(c) == IF c < 0 THEN 0 ELSE Len(out[c]) + Written(c - 1)

\* write(1, ...) in stage c: into the pipe, to the inherited stream, or SIGPIPE
stage_write(c) ==
    /\ cpc[c] = "running"
    /\ Written(Max(MaxN, MaxDataN) - 1) < MaxBytes
    /\ LET d == cfd[c][STDOUT_FILENO]
           b == Byte(c, Len(out[c]))
       IN  /\ d[1] \in {"w", "std"}
           /\ IF d[1] = "w" /\ ~Held(ReadEnd(d[2]))
              THEN ChildExit(c, SIGPIPE) /\ UNCHANGED <<out, buf>>
              ELSE /\ out' = [out EXCEPT ![c] = Append(@, b)]
                   /\ buf' = IF d[1] = "w" THEN [buf EXCEPT ![d[2]] = Append(@, b)]
                             ELSE buf
                   /\ UNCHANGED <<cpc, cfd, cstat>>
    /\ UNCHANGED <<cclosed, inp, eof>>
    /\ UNCHANGED parentVars
    /\ UNCHANGED <<sigchld_ign, empty_input, bad_args, failed>>

\* read(0, ...) in stage c from a pipe: a byte, or end-of-file once the pipe
\* is empty and no write end is open; it blocks otherwise
stage_read(c) ==
    /\ cpc[c] = "running"
    /\ ~eof[c]
    /\ LET d == cfd[c][STDIN_FILENO]
       IN  /\ d[1] = "r"
           /\ IF buf[d[2]] # <<>>
              THEN /\ inp' = [inp EXCEPT ![c] = Append(@, Head(buf[d[2]]))]
                   /\ buf' = [buf EXCEPT ![d[2]] = Tail(@)]
                   /\ UNCHANGED eof
              ELSE /\ ~Held(WriteEnd(d[2]))
                   /\ eof' = [eof EXCEPT ![c] = TRUE]
                   /\ UNCHANGED <<inp, buf>>
    /\ UNCHANGED out
    /\ UNCHANGED childVars
    /\ UNCHANGED parentVars
    /\ UNCHANGED <<sigchld_ign, empty_input, bad_args, failed>>

\* ---------------------------------------------------------- specifications
Parent(max) ==
    \/ main_args(max)
    \/ create_pipes
    \/ create_pipes_return
    \/ exec_command
    \/ exec_loop_end
    \/ close_pipes
    \/ wait_for_processes
    \/ main_exit

Child(c) ==
    \/ child_redirect(c)
    \/ execute(c)
    \/ stage_exit(c)

Next ==
    \/ Parent(MaxN)
    \/ \E c \in Stages : Child(c)

Spec == Init /\ [][Next]_vars

NextData ==
    \/ Parent(MaxDataN)
    \/ \E c \in Stages : Child(c)
    \/ \E c \in Stages : stage_write(c)
    \/ \E c \in Stages : stage_read(c)

SpecData == Init /\ [][NextData]_vars

\* the close log when the k-th call reported an error (k = 0: none did)
CloseReports(log, k) ==
    [j \in 1 .. Len(log) |-> IF j = k THEN <<log[j][1], FALSE>> ELSE log[j]]

\* close_pipes in the parent where a close may return -1 although the
\* descriptor was open (EINTR, EIO): the descriptor is released all the same,
\* the result is not looked at (lines 257-258), main goes on to wait
close_pipes_err ==
    /\ pc = "close_pipes"
    /\ LET d == close_pipes_call(pfd, pipe_array, 0, number_of_commands)
       IN  /\ pfd' = d.t
           /\ \E k \in 0 .. Len(d.log) : pclosed' = pclosed \o CloseReports(d.log, k)
    /\ pc' = "wait"
    /\ i' = 0
    /\ UNCHANGED <<number_of_commands, pipe_array, processes, status, exitcode,
                   why, waited, nforks, reaped, sigchld_ign, empty_input, bad_args, failed>>
    /\ UNCHANGED childVars
    /\ UNCHANGED dataVars

NextClose ==
    \/ main_args(MaxN)
    \/ create_pipes
    \/ create_pipes_return
    \/ exec_command
    \/ exec_loop_end
    \/ close_pipes_err
    \/ wait_for_processes
    \/ main_exit
    \/ \E c \in Stages : Child(c)

\* the program where close() may report an error on an open descriptor
SpecClose == Init /\ [][NextClose]_vars

\* the parent keeps its loops fair (none of its calls blocks except waitpid,
\* which returns once it can), and so does every child up to the shell
FairSpec ==
    /\ Spec
    /\ WF_vars(Parent(MaxN))
    /\ \A c \in Stages : WF_vars(child_redirect(c)) /\ WF_vars(execute(c))

\* stage c ends by itself: stage 0 at some time, a later stage once it has
\* read end-of-file
stage_ends(c) == stage_exit(c) /\ (c = 0 \/ eof[c])

\* fair scheduling of the parent, of every child up to the shell, and of
\* stages that go on reading and end as stage_ends says
FairSpecData ==
    /\ SpecData
    /\ WF_vars(Parent(MaxDataN))
    /\ \A c \in Stages : /\ WF_vars(child_redirect(c))
                          /\ WF_vars(execute(c))
                          /\ WF_vars(stage_read(c))
                          /\ WF_vars(stage_ends(c))

\* ----------------------------------------------------------------- claims
N == number_of_commands
\* argument handling, every pipe creation and every fork succeeded
LaunchedAll == pc \in {"close_pipes", "wait"} \/ why \in {"child", "success"}
AllStagesExited == \A c \in Stages : c < N => cpc[c] = "exited"

\* C1: when argument handling, every pipe and every fork succeeded and every
\* stage has terminated, the program's exit status is 0 if every stage exited
\* with status 0 and non-zero if some stage exited non-zero or was killed.
C1_ExitStatus ==
    (pc = "exit" /\ LaunchedAll /\ AllStagesExited) =>
        /\ (\A c \in Stages : c < N => cstat[c] = 0) => exitcode = 0
        /\ (\E c \in Stages : c < N /\ cstat[c] # 0) => exitcode # 0

\* C2: when child c is about to invoke the shell, its standard input is the
\* read end of pipe c-1 (c > 0), its standard output the write end of pipe c
\* (c < N-1), and it holds no other pipe end on any descriptor.
C2_ChildHoldsOnlyItsEnds ==
    \A c \in Stages : cpc[c] = "execute" =>
        /\ c > 0 => cfd[c][STDIN_FILENO] = ReadEnd(c - 1)
        /\ c < N - 1 => cfd[c][STDOUT_FILENO] = WriteEnd(c)
        /\ \A fd \in Fds : IsPipeEnd(cfd[c][fd]) =>
              \/ fd = STDIN_FILENO /\ c > 0
              \/ fd = STDOUT_FILENO /\ c < N - 1

ParentHoldsNoPipe == \A fd \in Fds : ~IsPipeEnd(pfd[fd])

\* C4: every pipe is created before the first fork; the parent closes no
\* pipe descriptor before all N forks are done; it waits for no process
\* before all N forks are done and all its pipe descriptors are closed.
C4_PhaseOrder ==
    /\ nforks > 0 => Len(pipe_array) = Max(N - 1, 0)
    /\ pclosed # <<>> => nforks = N /\ Len(processes) = N
    /\ waited # <<>> => /\ nforks = N /\ Len(processes) = N
                        /\ Len(pclosed) = 2 * Len(pipe_array)
                        /\ (pc # "exit" => ParentHoldsNoPipe)
C4_Witness == pc = "wait" /\ N = MaxN /\ Len(waited) = 1 /\ Len(pclosed) = 2 * (N - 1)

\* C5: the pipe bank never holds more than max(N-1, 0) pairs and holds
\* exactly that many once create_pipes has returned; pair k is the one whose
\* ends a wired stage k writes to and a wired stage k+1 reads from.
C5_PipeCount ==
    /\ Len(pipe_array) <= Max(N - 1, 0)
    /\ (pc \in {"exec", "close_pipes", "wait"} \/ why \in {"fork", "child", "success"})
          => Len(pipe_array) = Max(N - 1, 0)
    /\ pc = "exec" => \A k \in 0 .. Len(pipe_array) - 1 :
                          /\ pfd[PipeRd(pipe_array, k)] = ReadEnd(k)
                          /\ pfd[PipeWr(pipe_array, k)] = WriteEnd(k)
    /\ \A c \in Stages : cpc[c] \in {"execute", "running"} =>
          /\ IsPipeEnd(cfd[c][STDIN_FILENO]) => cfd[c][STDIN_FILENO] = ReadEnd(c - 1)
          /\ IsPipeEnd(cfd[c][STDOUT_FILENO]) => cfd[c][STDOUT_FILENO] = WriteEnd(c)
C5_Witness == pc = "exec" /\ N = MaxN /\ Len(pipe_array) = MaxN - 1 /\ nforks = 1

C7_ReaperFirstFailure ==
    /\ \A k \in 1 .. Len(waited) : waited[k] = Pid(k - 1)
    /\ why = "child" =>
          /\ exitcode = EXIT_FAILURE
          /\ Len(waited) = i + 1
          /\ \A c \in Stages : c <= i => cpc[c] = "exited"
          /\ \A c \in Stages : c < i => cstat[c] = 0
          /\ StatusFailed(cstat[i])
    /\ \A k \in Stages :
          (k < Len(waited) /\ cpc[k] = "exited" /\ StatusFailed(cstat[k])) =>
              pc = "exit" /\ exitcode = EXIT_FAILURE /\ Len(waited) = k + 1

\* C8: no close of the parent fails and no descriptor is closed twice; when
\* the parent starts waiting it has closed every descriptor of the bank,
\* 2*max(N-1,0) of them, and holds no pipe end.
C8_ParentClosesOnce ==
    /\ \A k \in 1 .. Len(pclosed) : pclosed[k][2]
    /\ \A j, k \in 1 .. Len(pclosed) : j # k => pclosed[j][1] # pclosed[k][1]
    /\ (pc = "wait" \/ why \in {"child", "success"}) =>
          /\ Len(pclosed) = 2 * Max(N - 1, 0)
          /\ {pclosed[k][1] : k \in 1 .. Len(pclosed)}
               = UNION {{pipe_array[k][1], pipe_array[k][2]} : k \in 1 .. Len(pipe_array)}
    /\ pc = "wait" => ParentHoldsNoPipe
C8_Witness == pc = "wait" /\ i = 0 /\ N = MaxN /\ Len(pclosed) = 2 * (MaxN - 1)

IsPrefix(a, b) == Len(a) <= Len(b) /\ a = SubSeq(b, 1, Len(a))

\* C9: what stage c+1 has read from its standard input is a prefix of what
\* stage c has written to its standard output, and all of it once stage c
\* has exited and stage c+1 has read end-of-file.
C9_DataFlow ==
    \A c \in Stages : c + 1 < N =>
        /\ IsPrefix(inp[c + 1], out[c])
        /\ (cpc[c] = "exited" /\ eof[c + 1]) => inp[c + 1] = out[c]
C9_Witness ==
    \E c \in Stages : /\ c + 1 < N
                      /\ cpc[c] = "exited"
                      /\ eof[c + 1]
                      /\ Len(inp[c + 1]) = MaxBytes

\* C10: with an empty command source the program has zero commands, creates
\* no pipe, forks and waits for no process, and exits with status 0.
C10_ZeroCommands ==
    /\ empty_input => N = 0
    /\ (N = 0 /\ pc # "start" /\ why \notin {"usage", "fopen"}) =>
          /\ pipe_array = <<>>
          /\ nforks = 0 /\ Launched = {}
          /\ pclosed = <<>> /\ waited = <<>>
          /\ pc = "exit" => exitcode = EXIT_SUCCESS /\ why = "success"
C10_Witness == empty_input /\ pc = "exit" /\ why = "success" /\ exitcode = 0

\* C11: started with more than one argument, or with one argument naming a
\* file that cannot be opened, the program has terminated with a non-zero
\* exit status, has created no pipe and has launched no process.
C11_BadArguments ==
    bad_args => /\ pc = "exit"
                /\ exitcode # 0
                /\ pipe_array = <<>>
                /\ nforks = 0
                /\ Launched = {}

C11_Witness == bad_args /\ pc = "exit" /\ why = "fopen"

\* C12: after a pipe() that failed the program has terminated with a non-zero
\* exit status and has forked nothing; after a fork() that failed for stage
\* i it has terminated with a non-zero exit status, the stages launched are
\* exactly 0 .. i-1, and fork was called once per stage 0 .. i (no retry).
C12_PipeOrForkFails ==
    /\ failed = "pipe" => /\ pc = "exit" /\ exitcode # 0
                          /\ nforks = 0 /\ Launched = {}
    /\ failed = "fork" => /\ pc = "exit" /\ exitcode # 0
                          /\ Launched = {c \in Stages : c < i}
                          /\ Len(processes) = i
                          /\ nforks = i + 1

C12_Witness == failed = "fork" /\ i = 1 /\ Launched = {0} /\ N >= 2

\* child c has terminated with the status of exit(EXIT_FAILURE)
ExitedWithFailure(c) == cpc[c] = "exited" /\ cstat[c] = WExit(EXIT_FAILURE)

\* C13: a child that ends before the shell has started (a dup2 or the execlp
\* failed) ends with a failure status, and whenever a child has ended with
\* that status the program, once it has exited, has exited with a non-zero
\* status.
C13_ShellStartFails ==
    /\ [][\A c \in Stages :
            (cpc[c] \in {"child", "execute"} /\ cpc'[c] = "exited")
               => (StatusFailed(cstat'[c]) /\ ExitedWithFailure(c)')]_vars
    /\ [](\A c \in Stages :
            (ExitedWithFailure(c) /\ pc = "exit") => exitcode # 0)

\* the number of waitpid calls that have failed so far: with SIGCHLD ignored
\* every call fails (ECHILD), otherwise none does
FailedWaits == IF sigchld_ign THEN Len(waited) ELSE 0

\* C14: after a waitpid that failed the program has terminated with a failure
\* status: it is not waiting for a later process and has not exited with 0.
C14_FailedWaitIsError ==
    FailedWaits > 0 => /\ pc = "exit"
                       /\ exitcode # 0
                       /\ FailedWaits = 1

\* a close call of the parent's close_pipes has reported an error
ParentCloseFailed == \E j \in 1 .. Len(pclosed) : ~pclosed[j][2]

\* C15: close_pipes has ended the program with a failure status exactly when
\* one of the parent's close calls has reported an error.
C15_CloseFailureIsFatal ==
    ParentCloseFailed <=> (pc = "exit" /\ why = "close" /\ exitcode # 0)

\* C16: whatever the order in which the stages and the parent took their
\* steps, the program has not exited with status 0 when one of its stages
\* has terminated with a failing status.
C16_FailingPipelineNeverExitsZero ==
    (pc = "exit" /\ \E c \in Launched : cpc[c] = "exited" /\ StatusFailed(cstat[c]))
        => exitcode # EXIT_SUCCESS

\* C17: once every pipe and every fork has succeeded, eventually the program
\* has exited and every stage has terminated.
C17_PipelineTerminates ==
    [](LaunchedAll => <>(pc = "exit" /\ AllStagesExited))

\* C18: in every child each close call has succeeded, that is, its
\* descriptor was open in the child, and no descriptor number has been
\* closed twice by the same child.
C18_ChildClosesOpenOnly ==
    \A c \in Stages :
        /\ \A j \in 1 .. Len(cclosed[c]) : cclosed[c][j][2]
        /\ \A j, k \in 1 .. Len(cclosed[c]) :
              j # k => cclosed[c][j][1] # cclosed[c][k][1]

\* the steps of a child: redirection, shell, termination
ChildSteps ==
    {<<"child", "execute">>, <<"child", "exited">>, <<"execute", "running">>,
     <<"execute", "exited">>, <<"running", "exited">>}

\* C19: fork is called by the parent's launch loop only, once per stage; a
\* child only goes on to the shell or exits and changes nothing of the
\* parent; no more than N processes are created.
C19_OnlyParentForks ==
    /\ [](nforks <= N /\ Cardinality(Launched) <= nforks)
    /\ [][nforks' # nforks =>
            (pc = "exec" /\ nforks' = nforks + 1 /\ i < N /\ pc' \in {"exec", "exit"})]_vars
    /\ [][\A c \in Stages :
            cpc'[c] # cpc[c] =>
               \/ cpc[c] = "none" /\ cpc'[c] = "child" /\ pc = "exec" /\ c = i
               \/ <<cpc[c], cpc'[c]>> \in ChildSteps /\ UNCHANGED parentVars]_vars

C19_Witness ==
    /\ N >= 2 /\ nforks = N
    /\ \E c, d \in Launched : cpc[c] = "exited" /\ cpc[d] = "running"

\* C20: whichever descriptor numbers the bank has, a child that has done its
\* redirections and closed the bank has its standard input open on the read
\* end of pipe c-1 (c > 0) and its standard output open on the write end of
\* pipe c (c < N-1), and keeps them while the command runs.
C20_StdStreamsSurviveClose ==
    \A c \in Stages : cpc[c] \in {"execute", "running"} =>
        /\ c > 0 => /\ cfd[c][STDIN_FILENO] # Closed
                    /\ cfd[c][STDIN_FILENO] = ReadEnd(StdinPipe(c))
        /\ c < N - 1 => /\ cfd[c][STDOUT_FILENO] # Closed
                        /\ cfd[c][STDOUT_FILENO] = WriteEnd(StdoutPipe(c))

====
